---- MODULE Spec2Model ----
(***************************************************************************)
(* cAdvisor container manager (lmctfy/cadvisor/manager).                   *)
(*                                                                         *)
(* The model has three kinds of threads:                                   *)
(*   - the global manager thread running manager.Start (createContainer,   *)
(*     detectContainers, destroyContainer);                                *)
(*   - one housekeeping goroutine per containerData (containerData         *)
(*     .housekeeping), launched by containerData.Start;                    *)
(*   - one client thread calling manager.GetContainerInfo.                 *)
(* The container handlers (container.ContainerHandler) are external: every *)
(* call into one picks its outcome nondeterministically.                   *)
(***************************************************************************)
EXTENDS Naturals, Sequences, FiniteSets, TLC

\* ------------------------------------------------------------------ bounds
\* Number of containerData objects NewContainerData may allocate, in all and
\* in the specifications SpecH, Spec and SpecG.
MaxCollectors == 3
CollectorsH == 2
CollectorsQ == 2
\* Number of containerData objects in the specification SpecF.
CollectorsF == 3

\* Number of samples the handlers yield in total (values of time.Now()), per
\* specification.
ClockH == 3
ClockM == 0
ClockQ == 1
ClockS == 3
\* Largest value of the history_duration flag that is explored (1..Max).
MaxHistoryDuration == 2
\* Longest list handler.ListContainers(LIST_RECURSIVE) returns.
MaxList == 2

\* ------------------------------------------------------------- value sets
Root == "/"
NonRoot == {"/a", "/b"}
Names == NonRoot \cup {Root}
CIds == 1..MaxCollectors
\* The nil *containerData / nil *list.Element.
Nil == 0
\* Spec.Memory.Limit values a handler reports.
HandlerLimits == {0, 1}
\* The nil *info.ContainerSpec of a fresh containerInfo.
NilSpec == [Memory |-> "nospec", Limit |-> 0]
\* MachineInfo.MemoryCapacity values getMachineInfo may report.
Capacities == {2}

\* Outcomes of the two handler calls of updateStats: a sample, no sample
\* (stats == nil), an error of GetStats, an error of StatsSummary, or a call
\* that never returns.
TickOutcomes == {"sample", "absent", "statsErr", "summaryErr", "block"}

Range(s) == {s[i] : i \in 1..Len(s)}

SeqsUpTo(S, n) == UNION {[1..k -> S] : k \in 0..n}

\* ------------------------------------------------------------------ state
VARIABLES
    containers,       \* manager.containers: name -> containerData (Nil: no key)
    machineInfo,      \* manager.machineInfo.MemoryCapacity
    historyDuration,  \* the history_duration flag
    ncoll,            \* number of containerData objects allocated so far
    info,             \* containerData.info of every object
    stop,             \* containerData.stop: number of buffered signals (cap 1)
    hk,               \* position of every object's housekeeping goroutine
    mgr,              \* the manager thread inside manager.Start; history: calm,
                      \* no failure and no change of live since the last
                      \* getContainersDiff, and second, the pass follows a calm one
    q,                \* the client thread inside manager.GetContainerInfo
    live,             \* containers that exist on the machine (environment)
    now,              \* time.Now(), advanced by every sample
    produced,         \* history: every sample appended to an object, in order
    qseen,            \* history: values of the queried object's Stats during the call
    ev                \* history: the step that was just taken; a return of
                      \* GetContainerInfo carries what the client receives

vars == <<containers, machineInfo, historyDuration, ncoll, info, stop, hk, mgr,
          q, live, now, produced, qseen, ev>>

\* ------------------------------------------------------------ initial state
\* A containerInfo before NewContainerData has filled it in.
NoInfo == [Name |-> "", Subcontainers |-> {}, Spec |-> NilSpec,
           Stats |-> <<>>, StatsSummary |-> Nil]

\* The nil *info.ContainerInfo.
NoRet == [Spec |-> NilSpec, StatsSummary |-> Nil, Stats |-> <<>>]

\* The client thread between two calls of GetContainerInfo. Inside a call,
\* name is the argument, cont the containerData found, summary the
\* StatsSummary pointer of the copy GetInfo returned, ret the ContainerInfo
\* under construction and e the list element of the loop.
IdleQuery == [pc |-> "idle", name |-> "", cont |-> Nil, summary |-> Nil,
              e |-> Nil, ret |-> NoRet]

\* manager.New: an empty map and the cached machine information.
Init ==
    /\ containers = [n \in Names |-> Nil]
    /\ machineInfo \in Capacities
    /\ historyDuration \in 1..MaxHistoryDuration
    /\ ncoll = 0
    /\ info = [c \in CIds |-> NoInfo]
    /\ stop = [c \in CIds |-> 0]
    /\ hk = [c \in CIds |-> "none"]
    /\ mgr = [pc |-> "init", phase |-> "root", cur |-> Nil, added |-> <<>>,
              removed |-> <<>>, calm |-> FALSE, second |-> FALSE]
    /\ q = IdleQuery
    /\ live \in SUBSET NonRoot
    /\ now = 0
    /\ produced = [c \in CIds |-> <<>>]
    /\ qseen = {}
    /\ ev = [op |-> "init", c |-> Nil, out |-> "none"]

\* --------------------------------------------------------------- collector
\* updateStats with "> historyDuration" for ">= historyDuration".
updateStats_offByOne(ci, out, ts) ==
    IF out \in {"statsErr", "absent", "summaryErr"} THEN ci
    ELSE [ci EXCEPT
            !.Stats = Append(IF Len(@) > historyDuration THEN Tail(@) ELSE @, ts),
            !.StatsSummary = ts]

\* updateStats that evicts the front before it looks at the sample.
updateStats_evictFirst(ci, out, ts) ==
    LET kept == IF Len(ci.Stats) >= historyDuration THEN Tail(ci.Stats) ELSE ci.Stats IN
    IF out = "statsErr" THEN ci
    ELSE IF out = "absent" THEN [ci EXCEPT !.Stats = kept]
    ELSE IF out = "summaryErr" THEN ci
    ELSE [ci EXCEPT !.Stats = Append(kept, ts), !.StatsSummary = ts]

\* updateStats that appends the sample before it asks for the summary.
updateStats_appendFirst(ci, out, ts) ==
    LET kept == IF Len(ci.Stats) >= historyDuration THEN Tail(ci.Stats) ELSE ci.Stats IN
    IF out \in {"statsErr", "absent"} THEN ci
    ELSE IF out = "summaryErr" THEN [ci EXCEPT !.Stats = Append(kept, ts)]
    ELSE [ci EXCEPT !.Stats = Append(kept, ts), !.StatsSummary = ts]

\* containerData.updateStats: the new containerInfo after a tick whose handler
\* calls had outcome out; ts is time.Now() when a sample was obtained.
updateStats(ci, out, ts) ==
    IF out = "statsErr" THEN ci
    ELSE IF out = "absent" THEN ci
    ELSE IF out = "summaryErr" THEN ci
    ELSE [ci EXCEPT
            !.Stats = Append(IF Len(@) >= historyDuration THEN Tail(@) ELSE @, ts),
            !.StatsSummary = ts]

\* The error updateStats returns.
updateStatsErr(out) == out \in {"statsErr", "summaryErr"}

\* containerData.housekeepingTick on object c with outcome out (out # "block"):
\* the error is logged and not returned.
housekeepingTick(c, out) ==
    /\ info' = [info EXCEPT ![c] = updateStats(@, out, now + 1)]
    /\ now' = IF out = "sample" THEN now + 1 ELSE now
    /\ produced' = IF out = "sample"
                   THEN [produced EXCEPT ![c] = Append(@, now + 1)]
                   ELSE produced
    /\ qseen' = IF q.pc # "idle" /\ q.cont = c
                THEN qseen \cup {info'[c].Stats}
                ELSE qseen

\* housekeeping that takes the stop signal and goes on waiting.
HkSelectStop_goOn(c) ==
    /\ hk[c] = "wait"
    /\ stop[c] > 0
    /\ stop' = [stop EXCEPT ![c] = @ - 1]
    /\ hk' = hk
    /\ ev' = [op |-> "select", c |-> c, out |-> "stop"]
    /\ UNCHANGED <<containers, machineInfo, historyDuration, ncoll, info, mgr,
                   q, live, now, produced, qseen>>

\* containerData.housekeeping, the stop case of the select: the goroutine
\* returns.
HkSelectStop(c) ==
    /\ hk[c] = "wait"
    /\ stop[c] > 0
    /\ stop' = [stop EXCEPT ![c] = @ - 1]
    /\ hk' = [hk EXCEPT ![c] = "exited"]
    /\ ev' = [op |-> "select", c |-> c, out |-> "stop"]
    /\ UNCHANGED <<containers, machineInfo, historyDuration, ncoll, info, mgr,
                   q, live, now, produced, qseen>>

\* housekeeping whose loop goes on ticking with a stop signal buffered.
HkTick_ignoreStop(c) ==
    /\ hk[c] = "wait"
    /\ \E out \in TickOutcomes :
         IF out = "block"
         THEN /\ hk' = [hk EXCEPT ![c] = "blocked"]
              /\ ev' = [op |-> "tick", c |-> c, out |-> out]
              /\ UNCHANGED <<info, now, produced, qseen, stop>>
         ELSE /\ housekeepingTick(c, out)
              /\ hk' = hk
              /\ stop' = stop
              /\ ev' = [op |-> "tick", c |-> c, out |-> out]
    /\ UNCHANGED <<containers, machineInfo, historyDuration, ncoll, mgr, q, live>>

\* containerData.housekeeping, the timer case of the select: housekeepingTick,
\* then the loop re-enters the select. The fresh time.Tick channel is not
\* ready at that moment, so a stop signal that is already buffered is the only
\* ready case and is taken at once. A handler call that never returns leaves
\* the goroutine inside the tick.
HkTick(c) ==
    /\ hk[c] = "wait"
    /\ \E out \in TickOutcomes :
         IF out = "block"
         THEN /\ hk' = [hk EXCEPT ![c] = "blocked"]
              /\ ev' = [op |-> "tick", c |-> c, out |-> out]
              /\ UNCHANGED <<info, now, produced, qseen, stop>>
         ELSE /\ housekeepingTick(c, out)
              /\ hk' = [hk EXCEPT ![c] = IF stop[c] > 0 THEN "exited" ELSE "wait"]
              /\ stop' = [stop EXCEPT ![c] = 0]
              /\ ev' = [op |-> "tick", c |-> c, out |-> out]
    /\ UNCHANGED <<containers, machineInfo, historyDuration, ncoll, mgr, q, live>>

\* ----------------------------------------------------------------- manager
\* The keys of manager.containers.
Keys(m) == {n \in Names : m[n] # Nil}

\* Every order in which ranging over a Go map can visit the set S.
Perms(S) == {s \in [1..Cardinality(S) -> S] : Range(s) = S}

\* Results of handler.ListContainers(LIST_RECURSIVE) on the root: any listing
\* of the live containers, which may repeat a name or include the root.
ListResults == {l \in SeqsUpTo(Names, MaxList) : Range(l) \ {Root} = live}

\* getContainersDiff that reports every listed name as added.
diffAdded_all(m, allContainers) == allContainers

\* getContainersDiff, first loop: the listed names that are not keys of the
\* map, in listing order.
diffAdded(m, allContainers) == SelectSeq(allContainers, LAMBDA n : m[n] = Nil)

\* getContainersDiff that never reports a removed name.
diffRemoved_none(m, allContainers) == {}

\* getContainersDiff without the append of "/" to the listing.
diffRemoved_noRoot(m, allContainers) ==
    Keys(m) \ (Range(allContainers) \ {Root})

\* getContainersDiff, allContainersSet after the first loop: the keys of the
\* map that the listing does not name.
diffRemoved(m, allContainers) == Keys(m) \ Range(allContainers)

\* manager.Start returning the error of every failed pass.
startOnError_return(phase) == "returned"

\* manager.Start, what follows a failed detectContainers: the recovery pass
\* returns the error, a pass of the loop logs it and waits for the next tick.
startOnError(phase) == IF phase = "recovery" THEN "returned" ELSE "loop"

\* detectContainers that skips a name whose create failed and goes on.
passFail_skip(why) ==
    /\ mgr' = [mgr EXCEPT !.pc = IF why = "create" THEN "apply"
                                 ELSE startOnError(mgr.phase),
                          !.added = IF @ = <<>> THEN @ ELSE Tail(@),
                          !.cur = Nil, !.calm = FALSE, !.second = FALSE]
    /\ ev' = [op |-> "passFail", c |-> Nil, out |-> why]

\* detectContainers returns an error to manager.Start.
passFail(why) ==
    /\ mgr' = [mgr EXCEPT !.pc = startOnError(mgr.phase), !.added = <<>>,
                          !.removed = <<>>, !.cur = Nil, !.calm = FALSE,
                          !.second = FALSE]
    /\ ev' = [op |-> "passFail", c |-> Nil, out |-> why]

\* manager.createContainer up to the insertion in the map: NewContainerData
\* (which may fail in container.NewContainerHandler), then the map write.
newContainer(name, id) ==
    /\ ncoll' = id
    /\ info' = [info EXCEPT ![id] = [NoInfo EXCEPT !.Name = name]]
    /\ containers' = [containers EXCEPT ![name] = id]

\* manager.Start begins: createContainer("/").
StartRoot ==
    /\ mgr.pc = "init"
    /\ \E ok \in BOOLEAN :
         IF ok
         THEN /\ ncoll < MaxCollectors
              /\ newContainer(Root, ncoll + 1)
              /\ mgr' = [mgr EXCEPT !.pc = "start", !.cur = ncoll + 1]
              /\ ev' = [op |-> "create", c |-> ncoll + 1, out |-> Root]
         ELSE /\ mgr' = [mgr EXCEPT !.pc = "returned"]
              /\ ev' = [op |-> "createFail", c |-> Nil, out |-> Root]
              /\ UNCHANGED <<ncoll, info, containers>>
    /\ UNCHANGED <<machineInfo, historyDuration, stop, hk, q, live, now,
                   produced, qseen>>

\* containerData.Start, called by createContainer on the manager thread: the
\* first housekeepingTick, then go c.housekeeping().
ContainerStart ==
    /\ mgr.pc = "start"
    /\ \E out \in TickOutcomes :
         IF out = "block"
         THEN /\ mgr' = [mgr EXCEPT !.pc = "blocked"]
              /\ ev' = [op |-> "start", c |-> mgr.cur, out |-> out]
              /\ UNCHANGED <<info, now, produced, qseen, hk>>
         ELSE /\ housekeepingTick(mgr.cur, out)
              /\ hk' = [hk EXCEPT ![mgr.cur] = "wait"]
              /\ mgr' = [mgr EXCEPT
                           !.pc = IF mgr.phase = "root" THEN "loop" ELSE "apply",
                           !.phase = IF mgr.phase = "root" THEN "recovery" ELSE @,
                           !.cur = Nil]
              /\ ev' = [op |-> "start", c |-> mgr.cur, out |-> out]
    /\ UNCHANGED <<containers, machineInfo, historyDuration, ncoll, stop, q, live>>

\* detectContainers begins (the recovery pass, or the next tick of the loop of
\* manager.Start): getContainersDiff under the read lock.
GetContainersDiff ==
    /\ mgr.pc = "loop"
    /\ \E ok \in BOOLEAN :
         IF ok /\ containers[Root] # Nil
         THEN \E l \in ListResults :
                LET allContainers == Append(l, Root) IN
                \E removed \in Perms(diffRemoved(containers, allContainers)) :
                  /\ mgr' = [mgr EXCEPT
                               !.pc = "apply",
                               !.added = diffAdded(containers, allContainers),
                               !.removed = removed,
                               !.second = mgr.calm,
                               !.calm = TRUE]
                  /\ ev' = [op |-> "diff", c |-> Nil, out |-> "ok"]
         ELSE passFail("list")
    /\ UNCHANGED <<containers, machineInfo, historyDuration, ncoll, info, stop,
                   hk, q, live, now, produced, qseen>>

\* detectContainers, first loop: createContainer(name) up to the map write.
CreateContainer ==
    /\ mgr.pc = "apply"
    /\ mgr.added # <<>>
    /\ \E ok \in BOOLEAN :
         IF ok
         THEN /\ ncoll < MaxCollectors
              /\ newContainer(Head(mgr.added), ncoll + 1)
              /\ mgr' = [mgr EXCEPT !.pc = "start", !.cur = ncoll + 1,
                                    !.added = Tail(@)]
              /\ ev' = [op |-> "create", c |-> ncoll + 1, out |-> Head(mgr.added)]
         ELSE /\ passFail("create")
              /\ UNCHANGED <<ncoll, info, containers>>
    /\ UNCHANGED <<machineInfo, historyDuration, stop, hk, q, live, now,
                   produced, qseen>>

\* Capacity of the stop channel: make(chan bool, 1).
StopCap == 1

\* destroyContainer that stops the object and leaves its key in the map.
DestroyContainer_keepKey ==
    /\ mgr.pc = "apply"
    /\ mgr.added = <<>>
    /\ mgr.removed # <<>>
    /\ LET name == Head(mgr.removed)
           cont == containers[name] IN
         IF cont = Nil
         THEN /\ passFail("destroy")
              /\ UNCHANGED <<containers, stop>>
         ELSE /\ stop[cont] < StopCap
              /\ stop' = [stop EXCEPT ![cont] = @ + 1]
              /\ containers' = containers
              /\ mgr' = [mgr EXCEPT !.removed = Tail(@)]
              /\ ev' = [op |-> "destroy", c |-> cont, out |-> name]
    /\ UNCHANGED <<machineInfo, historyDuration, ncoll, info, hk, q, live, now,
                   produced, qseen>>

\* detectContainers, second loop: destroyContainer(name) under the write lock.
\* containerData.Stop sends on the buffered channel, which blocks while the
\* buffer is full.
DestroyContainer ==
    /\ mgr.pc = "apply"
    /\ mgr.added = <<>>
    /\ mgr.removed # <<>>
    /\ LET name == Head(mgr.removed)
           cont == containers[name] IN
         IF cont = Nil
         THEN /\ passFail("destroy")
              /\ UNCHANGED <<containers, stop>>
         ELSE /\ stop[cont] < StopCap
              /\ stop' = [stop EXCEPT ![cont] = @ + 1]
              /\ containers' = [containers EXCEPT ![name] = Nil]
              /\ mgr' = [mgr EXCEPT !.removed = Tail(@)]
              /\ ev' = [op |-> "destroy", c |-> cont, out |-> name]
    /\ UNCHANGED <<machineInfo, historyDuration, ncoll, info, hk, q, live, now,
                   produced, qseen>>

\* detectContainers returns nil; manager.Start waits for the next tick.
PassReturn ==
    /\ mgr.pc = "apply"
    /\ mgr.added = <<>>
    /\ mgr.removed = <<>>
    /\ mgr' = [mgr EXCEPT !.pc = "loop", !.phase = "loop", !.second = FALSE]
    /\ ev' = [op |-> "passOk", c |-> Nil, out |-> "ok"]
    /\ UNCHANGED <<containers, machineInfo, historyDuration, ncoll, info, stop,
                   hk, q, live, now, produced, qseen>>

\* ------------------------------------------------------------- environment
\* Containers appear on and disappear from the machine.
EnvChange ==
    /\ \E l \in SUBSET NonRoot :
         /\ l # live
         /\ live' = l
    /\ mgr' = [mgr EXCEPT !.calm = FALSE]
    /\ ev' = [op |-> "env", c |-> Nil, out |-> "live"]
    /\ UNCHANGED <<containers, machineInfo, historyDuration, ncoll, info, stop,
                   hk, q, now, produced, qseen>>

\* ------------------------------------------------------------------ query
\* Values of handler.GetSpec: Spec.Memory == nil, or Spec.Memory.Limit.
HandlerSpecs ==
    {[Memory |-> "nil", Limit |-> 0]}
        \cup {[Memory |-> "set", Limit |-> l] : l \in HandlerLimits}

\* list.List.Front.
Front(l) == IF l = <<>> THEN Nil ELSE l[1]

\* list.Element.Next on the list l: an element that was removed from the list
\* has no list and no successor.
ListNext(l, e) ==
    IF e \notin Range(l) THEN Nil
    ELSE LET i == CHOOSE j \in 1..Len(l) : l[j] = e IN
         IF i = Len(l) THEN Nil ELSE l[i + 1]

\* GetContainerInfo returns err and ret to the client that asked for name;
\* seen are the values the Stats of object c took during the call.
getReturn(name, c, err, ret, seen) ==
    /\ q' = IdleQuery
    /\ qseen' = {}
    /\ ev' = [op |-> "return", c |-> c, out |-> err, name |-> name,
              ret |-> ret, seen |-> seen]

\* GetContainerInfo reporting every failure as an unknown container.
getInfoError_unknown == "notfound"

\* The error GetContainerInfo returns when containerData.GetInfo fails.
getInfoError == "io"

\* manager.GetContainerInfo, the lookup under the read lock.
GetLookup ==
    /\ q.pc = "idle"
    /\ \E name \in Names :
         LET cont == containers[name] IN
         IF cont = Nil
         THEN getReturn(name, Nil, "notfound", NoRet, {})
         ELSE /\ q' = [IdleQuery EXCEPT !.pc = "getinfo", !.name = name,
                                        !.cont = cont]
              /\ qseen' = {info[cont].Stats}
              /\ ev' = [op |-> "get", c |-> cont, out |-> "found"]
    /\ UNCHANGED <<containers, machineInfo, historyDuration, ncoll, info, stop,
                   hk, mgr, live, now, produced>>

\* containerData.updateSpec: the pointer handler.GetSpec returned is stored
\* in info.Spec.
updateSpec(ci, spec) == [ci EXCEPT !.Spec = spec]

\* containerData.updateSubcontainers: ListContainers(LIST_SELF) names the
\* children, which only the root has.
updateSubcontainers(ci) ==
    [ci EXCEPT !.Subcontainers = IF ci.Name = Root THEN live ELSE {}]

\* containerData.GetInfo: updateSpec, updateSubcontainers, then ret := c.info
\* under the lock, a copy of the struct. Its Spec and Stats fields are
\* pointers to the Spec and the list of the containerData, so only the
\* StatsSummary pointer is a value of that moment. Either handler call may
\* fail, the second after the first has stored its Spec. The three steps touch
\* no field a tick writes and are taken as one.
GetInfo ==
    /\ q.pc = "getinfo"
    /\ \E out \in {"specErr", "subErr", "ok"} :
         IF out = "specErr"
         THEN /\ getReturn(q.name, q.cont, getInfoError, NoRet, qseen)
              /\ UNCHANGED info
         ELSE \E spec \in HandlerSpecs :
                IF out = "subErr"
                THEN /\ info' = [info EXCEPT ![q.cont] = updateSpec(@, spec)]
                     /\ getReturn(q.name, q.cont, getInfoError, NoRet, qseen)
                ELSE /\ info' = [info EXCEPT ![q.cont] =
                                   updateSubcontainers(updateSpec(@, spec))]
                     /\ q' = [q EXCEPT !.pc = "project",
                                       !.summary = info[q.cont].StatsSummary]
                     /\ ev' = [op |-> "get", c |-> q.cont, out |-> "info"]
                     /\ UNCHANGED qseen
    /\ UNCHANGED <<containers, machineInfo, historyDuration, ncoll, stop, hk,
                   mgr, live, now, produced>>

\* GetContainerInfo that replaces every memory limit by the capacity.
defaultLimit_always(spec) ==
    IF spec.Memory = "set" THEN [spec EXCEPT !.Limit = machineInfo] ELSE spec

\* manager.GetContainerInfo, the default of the memory limit: the value of
\* Spec.Memory.Limit after the assignment through ret.Spec.
defaultLimit(spec) ==
    IF spec.Memory = "set" /\ spec.Limit = 0
    THEN [spec EXCEPT !.Limit = machineInfo]
    ELSE spec

\* manager.GetContainerInfo after GetInfo: ret is built, the default memory
\* limit is written through ret.Spec, which is the pointer info.Spec holds,
\* and the loop over cinfo.Stats starts at Front().
GetProject ==
    /\ q.pc = "project"
    /\ LET spec == defaultLimit(info[q.cont].Spec)
           ret == [Spec |-> spec, StatsSummary |-> q.summary, Stats |-> <<>>]
           e == Front(info[q.cont].Stats) IN
         /\ info' = [info EXCEPT ![q.cont].Spec = spec]
         /\ IF e = Nil
            THEN getReturn(q.name, q.cont, "none", ret, qseen)
            ELSE /\ q' = [q EXCEPT !.pc = "iter", !.ret = ret, !.e = e]
                 /\ ev' = [op |-> "get", c |-> q.cont, out |-> "project"]
                 /\ UNCHANGED qseen
    /\ UNCHANGED <<containers, machineInfo, historyDuration, ncoll, stop, hk,
                   mgr, live, now, produced>>

\* manager.GetContainerInfo, one round of the loop over cinfo.Stats: the list
\* is the one the housekeeping goroutine writes, read without the lock.
GetIter ==
    /\ q.pc = "iter"
    /\ LET ret == [q.ret EXCEPT !.Stats = Append(@, q.e)]
           e == ListNext(info[q.cont].Stats, q.e) IN
         IF e = Nil
         THEN getReturn(q.name, q.cont, "none", ret, qseen)
         ELSE /\ q' = [q EXCEPT !.ret = ret, !.e = e]
              /\ ev' = [op |-> "get", c |-> q.cont, out |-> "iter"]
              /\ UNCHANGED qseen
    /\ UNCHANGED <<containers, machineInfo, historyDuration, ncoll, info, stop,
                   hk, mgr, live, now, produced>>

\* ----------------------------------------------------------- specifications
\* The part of the state space a specification explores: at most colls
\* containerData objects, at most clock samples, history_duration among
\* hist, containers among names, the handler calls of a first refresh with an
\* outcome among starts and those of a periodic tick with an outcome among
\* ticks.
Budget(colls, clock, hist, names, starts, ticks) ==
    /\ ncoll <= colls
    /\ now <= clock
    /\ historyDuration \in hist
    /\ live \subseteq names
    /\ ev.op = "start" => ev.out \in starts
    /\ ev.op = "tick" => ev.out \in ticks

\* Every thread: queries against the reconciliation and the housekeeping of
\* two objects whose periodic ticks yield samples.
BudgetQ ==
    Budget(CollectorsQ, ClockQ, {MaxHistoryDuration}, {"/a"},
           {"sample", "absent"}, {"sample"})
InitQ == Init /\ BudgetQ
Next ==
    \/ StartRoot /\ BudgetQ'
    \/ ContainerStart /\ BudgetQ'
    \/ GetContainersDiff /\ BudgetQ'
    \/ CreateContainer /\ BudgetQ'
    \/ DestroyContainer /\ BudgetQ'
    \/ PassReturn /\ BudgetQ'
    \/ EnvChange /\ BudgetQ'
    \/ \E c \in CIds : HkSelectStop(c) /\ BudgetQ'
    \/ \E c \in CIds : HkTick(c) /\ BudgetQ'
    \/ GetLookup /\ BudgetQ'
    \/ GetInfo /\ BudgetQ'
    \/ GetProject /\ BudgetQ'
    \/ GetIter /\ BudgetQ'
Spec == InitQ /\ [][Next]_vars

\* Queries against the reconciliation while no handler has statistics: no
\* list ever holds a sample, so the loop of GetContainerInfo has no round.
BudgetG ==
    Budget(CollectorsQ, ClockM, {MaxHistoryDuration}, {"/a"},
           {"absent"}, {"absent"})
InitG == Init /\ BudgetG
NextG ==
    \/ StartRoot /\ BudgetG'
    \/ ContainerStart /\ BudgetG'
    \/ GetContainersDiff /\ BudgetG'
    \/ CreateContainer /\ BudgetG'
    \/ DestroyContainer /\ BudgetG'
    \/ PassReturn /\ BudgetG'
    \/ EnvChange /\ BudgetG'
    \/ \E c \in CIds : HkSelectStop(c) /\ BudgetG'
    \/ \E c \in CIds : HkTick(c) /\ BudgetG'
    \/ GetLookup /\ BudgetG'
    \/ GetInfo /\ BudgetG'
    \/ GetProject /\ BudgetG'
SpecG == InitG /\ [][NextG]_vars

\* The collectors and their histories: the manager and the housekeeping
\* goroutines of two containerData objects, every outcome of a tick.
BudgetH ==
    Budget(CollectorsH, ClockH, 1..MaxHistoryDuration, {"/a"},
           TickOutcomes, TickOutcomes)
InitH == Init /\ BudgetH
NextH ==
    \/ StartRoot /\ BudgetH'
    \/ ContainerStart /\ BudgetH'
    \/ GetContainersDiff /\ BudgetH'
    \/ CreateContainer /\ BudgetH'
    \/ DestroyContainer /\ BudgetH'
    \/ PassReturn /\ BudgetH'
    \/ EnvChange /\ BudgetH'
    \/ \E c \in CIds : HkSelectStop(c) /\ BudgetH'
    \/ \E c \in CIds : HkTick(c) /\ BudgetH'
SpecH == InitH /\ [][NextH]_vars

\* The reconciliation of the manager: every container, every outcome of a
\* first refresh, periodic ticks that yield a sample or never return, at
\* most ClockM samples.
BudgetM ==
    Budget(MaxCollectors, ClockM, {MaxHistoryDuration}, NonRoot,
           TickOutcomes, {"sample", "block"})
InitM == Init /\ BudgetM
NextM ==
    \/ StartRoot /\ BudgetM'
    \/ ContainerStart /\ BudgetM'
    \/ GetContainersDiff /\ BudgetM'
    \/ CreateContainer /\ BudgetM'
    \/ DestroyContainer /\ BudgetM'
    \/ PassReturn /\ BudgetM'
    \/ EnvChange /\ BudgetM'
    \/ \E c \in CIds : HkSelectStop(c) /\ BudgetM'
    \/ \E c \in CIds : HkTick(c) /\ BudgetM'
SpecM == InitM /\ [][NextM]_vars

\* Queries of the root against its housekeeping on a machine that has no
\* other container, every tick yielding a sample.
BudgetS == Budget(1, ClockS, {MaxHistoryDuration}, {}, {"sample"}, {"sample"})
InitS == Init /\ BudgetS
NextS ==
    \/ StartRoot /\ BudgetS'
    \/ ContainerStart /\ BudgetS'
    \/ GetContainersDiff /\ BudgetS'
    \/ PassReturn /\ BudgetS'
    \/ \E c \in CIds : HkTick(c) /\ BudgetS'
    \/ GetLookup /\ BudgetS'
    \/ GetInfo /\ BudgetS'
    \/ GetProject /\ BudgetS'
    \/ GetIter /\ BudgetS'
SpecS == InitS /\ [][NextS]_vars

\* The reconciliation and the housekeeping under fair scheduling: the manager
\* thread is a running goroutine whose loop is driven by time.Tick, and every
\* housekeeping goroutine waits in a select whose timer case fires every
\* second, so each takes a step when it can. Handlers have no statistics and a
\* periodic tick may never return.
BudgetF ==
    Budget(CollectorsF, ClockM, {MaxHistoryDuration}, {"/a"},
           {"absent"}, {"absent", "block"})
InitF == Init /\ BudgetF
NextF ==
    \/ StartRoot /\ BudgetF'
    \/ ContainerStart /\ BudgetF'
    \/ GetContainersDiff /\ BudgetF'
    \/ CreateContainer /\ BudgetF'
    \/ DestroyContainer /\ BudgetF'
    \/ PassReturn /\ BudgetF'
    \/ EnvChange /\ BudgetF'
    \/ \E c \in CIds : HkSelectStop(c) /\ BudgetF'
    \/ \E c \in CIds : HkTick(c) /\ BudgetF'
\* A step of the manager thread inside manager.Start.
StartStep ==
    \/ StartRoot /\ BudgetF'
    \/ ContainerStart /\ BudgetF'
    \/ GetContainersDiff /\ BudgetF'
    \/ CreateContainer /\ BudgetF'
    \/ DestroyContainer /\ BudgetF'
    \/ PassReturn /\ BudgetF'
\* A step of the housekeeping goroutine of object c.
housekeeping(c) ==
    \/ HkSelectStop(c) /\ BudgetF'
    \/ HkTick(c) /\ BudgetF'
SpecF ==
    /\ InitF
    /\ [][NextF]_vars
    /\ WF_vars(StartStep)
    /\ \A c \in CIds : WF_vars(housekeeping(c))

\* -------------------------------------------------------------- properties
Min(a, b) == IF a <= b THEN a ELSE b

\* The last k elements of s.
LastK(s, k) == SubSeq(s, Len(s) - k + 1, Len(s))

\* A step that is a housekeepingTick (the first refresh of Start or a tick of
\* the housekeeping goroutine) with outcome among outs.
TickStep(outs) == ev'.op \in {"start", "tick"} /\ ev'.out \in outs

\* C1: after N ticks that yielded a sample, Stats holds exactly the last
\* min(N, history_duration) of them in the order they were produced, so it
\* never holds more than history_duration samples and a tick at capacity drops
\* the oldest sample and no other.
C1_BoundedHistory ==
    \A c \in CIds :
      /\ Len(info[c].Stats) <= historyDuration
      /\ info[c].Stats =
           LastK(produced[c], Min(Len(produced[c]), historyDuration))

\* C1 witness: an object that has evicted a sample from a history of two.
C1_Witness ==
    \E c \in CIds :
      /\ historyDuration = 2
      /\ Len(produced[c]) = 3
      /\ info[c].Stats = <<produced[c][2], produced[c][3]>>

\* C2: a tick whose GetStats reports no sample leaves the Stats and the
\* StatsSummary of every object as they were.
C2_AbsentIsNoOp ==
    [][TickStep({"absent"}) =>
         \A c \in CIds : /\ info'[c].Stats = info[c].Stats
                         /\ info'[c].StatsSummary = info[c].StatsSummary]_vars

\* C2 witness: a tick without a sample on an object whose history is full.
C2_Witness ==
    /\ ev.op = "tick"
    /\ ev.out = "absent"
    /\ Len(info[ev.c].Stats) = historyDuration

\* C3: a tick in which GetStats or StatsSummary fails changes no Stats and no
\* StatsSummary, returns no error to the manager (createContainer goes on) and
\* leaves the housekeeping goroutine in its loop unless a stop signal is
\* buffered; every tick that yields a sample appends it.
C3_FailedTickIsSwallowed ==
    [][/\ TickStep({"statsErr", "summaryErr"}) =>
            /\ \A c \in CIds : /\ info'[c].Stats = info[c].Stats
                               /\ info'[c].StatsSummary = info[c].StatsSummary
            /\ hk'[ev'.c] = IF stop[ev'.c] > 0 THEN "exited" ELSE "wait"
            /\ ev'.op = "start" => mgr'.pc \in {"loop", "apply"}
       /\ TickStep({"sample"}) =>
            /\ info'[ev'.c].Stats # <<>>
            /\ info'[ev'.c].Stats[Len(info'[ev'.c].Stats)] = now'
            /\ now' = now + 1]_vars

\* C3 witness: a failed StatsSummary on an object that holds a sample and
\* whose goroutine is still in its loop.
C3_Witness ==
    /\ ev.op = "tick"
    /\ ev.out = "summaryErr"
    /\ hk[ev.c] = "wait"
    /\ info[ev.c].Stats # <<>>

\* C4: GetContainerInfo answers "unknown container" exactly when its lookup
\* finds that the name is not a key of the map at that moment; that return
\* carries no snapshot and the step changes neither the map nor any
\* containerData; a call goes on past the lookup only for a name that is a key.
C4_NotFoundIffNoKey ==
    [][/\ ev'.op = "return" =>
            /\ (ev'.out = "notfound") <=>
                 (q.pc = "idle" /\ containers[ev'.name] = Nil)
            /\ ev'.out = "notfound" =>
                 /\ ev'.ret = NoRet
                 /\ UNCHANGED <<containers, ncoll, info, stop, hk>>
       /\ (q.pc = "idle" /\ q'.pc # "idle") => containers[q'.name] # Nil]_vars

\* C4 witness: "/a" was created and destroyed, and a query for it has just
\* been answered with "unknown container".
C4_Witness ==
    /\ ev.op = "return"
    /\ ev.out = "notfound"
    /\ ev.name = "/a"
    /\ \E c \in 1..ncoll : info[c].Name = "/a"
    /\ containers["/a"] = Nil

\* C5: when GetContainerInfo returns the machine capacity as the limit (the
\* handler's Spec had limit 0: no handler limit equals a capacity), the Spec
\* the containerData holds still has limit 0.
C5_StoredSpecKeepsLimit0 ==
    (/\ ev.op = "return"
     /\ ev.out = "none"
     /\ ev.ret.Spec.Memory = "set"
     /\ ev.ret.Spec.Limit = machineInfo)
        => info[ev.c].Spec.Limit = 0

\* C6: the samples a successful GetContainerInfo returns are the Stats of the
\* containerData as they were at one moment of the call.
C6_SnapshotAtOneInstant ==
    (ev.op = "return" /\ ev.out = "none") => ev.ret.Stats \in ev.seen

\* A handler call of object c never returns: in a tick of its goroutine, or in
\* the first refresh that containerData.Start runs on the manager thread.
Blocked(c) == hk[c] = "blocked" \/ (mgr.pc = "blocked" /\ mgr.cur = c)

\* C7: a handler call of one object that never returns does not hold up the
\* manager thread, so that the next reconciliation pass can run.
C7_Isolation == \A c \in CIds : Blocked(c) => mgr.pc # "blocked"

\* C8 as stated: manager.Start has returned only when createContainer("/")
\* failed, which leaves the map without the root.
C8_OnlyRootFailureReturns == mgr.pc = "returned" => containers[Root] = Nil

\* detectContainers has returned normally: both loops are done.
PassDone == mgr.pc = "apply" /\ mgr.added = <<>> /\ mgr.removed = <<>>

\* C8 amended: manager.Start has returned only before its loop (the root or
\* the recovery pass failed), and after a failed pass of the loop the manager
\* waits for the next tick.
C8_LoopPassFailureIsNotFatal ==
    /\ mgr.pc = "returned" => mgr.phase \in {"root", "recovery"}
    /\ (ev.op = "passFail" /\ mgr.phase = "loop") => mgr.pc = "loop"

\* C8 witness: a pass of the loop has just failed in a create and the manager
\* waits for the next tick.
C8_Witness ==
    /\ ev.op = "passFail"
    /\ ev.out = "create"
    /\ mgr.phase = "loop"
    /\ mgr.pc = "loop"

\* C9: when a pass without failure returns and the live set has not changed
\* since its getContainersDiff, the keys of the map are the live names and the
\* root, and every containerData in the map has been started.
C9_PassReachesLiveSet ==
    (PassDone /\ mgr.calm) =>
        /\ Keys(containers) = live \cup {Root}
        /\ \A n \in Keys(containers) : hk[containers[n]] # "none"

\* C9 witness: a pass of the loop ends that has just started a containerData
\* and tracks "/", "/a" and "/b".
C9_Witness ==
    /\ PassDone
    /\ mgr.calm
    /\ mgr.phase = "loop"
    /\ ev.op = "start"
    /\ Keys(containers) = Names

\* C10: a pass that follows a pass without failure, the live set unchanged
\* since that pass listed it, computes no added and no removed name, and while
\* it runs the map is not written, no containerData is allocated and no stop
\* signal is sent.
C10_SecondPassIsEmpty ==
    [][/\ mgr'.second => (mgr'.added = <<>> /\ mgr'.removed = <<>>)
       /\ mgr.second =>
            /\ containers' = containers
            /\ ncoll' = ncoll
            /\ \A c \in CIds : stop'[c] <= stop[c]]_vars

\* C10 witness: the second pass has listed the containers while "/a" and "/b"
\* are tracked.
C10_Witness ==
    /\ mgr.second
    /\ mgr.pc = "apply"
    /\ Keys(containers) = Names

\* The ContainerInfo GetContainerInfo holds after a step of its own: the one
\* it returns when the step returns, else the one under construction.
RetAfter == IF ev'.op = "return" THEN ev'.ret ELSE q'.ret

\* C11: the memory limit GetContainerInfo puts in its result is the machine's
\* memory capacity when the Spec it got has limit 0 and the limit of that Spec
\* when it is positive; the loop over the samples keeps it, and no step
\* changes the cached machine information.
C11_EffectiveLimit ==
    [][/\ machineInfo' = machineInfo
       /\ (q.pc = "project" /\ q'.pc # "project"
              /\ info[q.cont].Spec.Memory = "set") =>
            RetAfter.Spec.Limit =
                IF info[q.cont].Spec.Limit = 0 THEN machineInfo
                ELSE info[q.cont].Spec.Limit
       /\ (q.pc = "iter" /\ q' # q) => RetAfter.Spec = q.ret.Spec]_vars

\* C11 witness: a query that went through the loop over the samples returns
\* the machine capacity as the limit.
C11_Witness ==
    /\ ev.op = "return"
    /\ ev.out = "none"
    /\ ev.ret.Stats # <<>>
    /\ ev.ret.Spec = [Memory |-> "set", Limit |-> machineInfo]

\* C12: getContainersDiff leaves the map as it is and returns, for the keys T
\* of the map and the names L on the machine (the root included), every name
\* of L \ T once in added and every name of T \ L once in removed.
C12_DiffIsSetDifference ==
    [][ev'.op = "diff" =>
         LET L == live \cup {Root}
             T == Keys(containers) IN
         /\ containers' = containers
         /\ Range(mgr'.added) = L \ T
         /\ Range(mgr'.removed) = T \ L
         /\ Len(mgr'.added) = Cardinality(L \ T)
         /\ Len(mgr'.removed) = Cardinality(T \ L)]_vars

\* The containerData objects of name n whose housekeeping has been started
\* and that have not been sent a stop signal.
Running(n) ==
    {c \in 1..ncoll : /\ info[c].Name = n
                      /\ hk[c] \in {"wait", "blocked"}
                      /\ stop[c] = 0}

\* C13: for every name, at most one containerData has a started housekeeping
\* goroutine that was not asked to stop, and it is the one the map holds
\* under that name.
C13_OneCollectorPerName ==
    \A n \in Names : Running(n) \subseteq {containers[n]}

\* C14: a housekeeping goroutine ticks only while it waits in its select; a
\* tick it runs with a stop signal buffered (destroyContainer has returned) is
\* its last, the goroutine has exited after it unless the handler call never
\* returns; that tick is on an object the map does not hold and changes no
\* containerInfo the map leads to; a goroutine that has exited stays so and
\* appends no sample.
C14_AtMostOneTickAfterStop ==
    [][\A c \in CIds :
         /\ (ev'.op = "tick" /\ ev'.c = c) => hk[c] = "wait"
         /\ (ev'.op = "tick" /\ ev'.c = c /\ stop[c] > 0) =>
              /\ hk'[c] \in {"exited", "blocked"}
              /\ \A n \in Names : containers[n] # c
              /\ \A n \in Keys(containers) :
                   info'[containers[n]] = info[containers[n]]
         /\ hk[c] = "exited" =>
              (hk'[c] = "exited" /\ produced'[c] = produced[c])]_vars

\* C14 witness: a destroyed object's goroutine has run one more tick, which
\* appended a sample, and has exited.
C14_Witness ==
    /\ ev.op = "tick"
    /\ ev.out = "sample"
    /\ hk[ev.c] = "exited"
    /\ info[ev.c].Name = "/a"
    /\ containers["/a"] # ev.c

C17_RootStaysTracked ==
    /\ ncoll > 0 => (containers[Root] = 1 /\ info[1].Name = Root)
    /\ Root \notin Range(mgr.added) \cup Range(mgr.removed)

\* C17 witness: a pass has just destroyed the last other container and the
\* map holds the root alone.
C17_Witness ==
    /\ ev.op = "destroy"
    /\ containers[Root] = 1
    /\ Keys(containers) = {Root}

\* C18: the buffer of the stop channel of every containerData the map holds
\* has room, so the send of containerData.Stop does not wait: whenever the
\* manager thread is about to destroy a container the step can be taken,
\* whatever the goroutine of that object is doing.
C18_StopNeverBlocks ==
    /\ \A n \in Keys(containers) : stop[containers[n]] < StopCap
    /\ (mgr.pc = "apply" /\ mgr.added = <<>> /\ mgr.removed # <<>>)
           => ENABLED DestroyContainer

\* C18 witness: destroyContainer has returned for an object whose goroutine
\* is inside a handler call that never returns; the signal stays buffered.
C18_Witness ==
    /\ ev.op = "destroy"
    /\ hk[ev.c] = "blocked"
    /\ stop[ev.c] = StopCap
    /\ containers[ev.out] = Nil

\* C20: the containerData a query has found in the map has completed the
\* first housekeepingTick of Start, and on a machine whose handlers always
\* yield a sample a successful GetContainerInfo returns at least one sample.
C20_QueryFindsRefreshedCollector ==
    /\ q.pc # "idle" => hk[q.cont] # "none"
    /\ (ev.op = "return" /\ ev.out = "none") => ev.ret.Stats # <<>>

\* The state of object c: 0 created (housekeeping not launched), 1 running,
\* 2 stopping (a stop signal is buffered), 3 stopped (the goroutine returned).
CollectorState(c) ==
    IF hk[c] = "exited" THEN 3
    ELSE IF stop[c] > 0 THEN 2
    ELSE IF hk[c] = "none" THEN 0
    ELSE 1

\* C19: every object that was sent a stop signal reaches the stopped state,
\* unless its goroutine is inside a handler call that never returns; and an
\* object's state only moves from created to running to stopping to stopped,
\* one state at a time.
C19_StoppedEventually ==
    /\ \A c \in CIds :
         (stop[c] > 0) ~> (hk[c] = "exited" \/ hk[c] = "blocked")
    /\ [][\A c \in CIds :
            \/ CollectorState(c)' = CollectorState(c)
            \/ CollectorState(c)' = CollectorState(c) + 1]_vars

\* C19 witness: the goroutine of a destroyed object has taken the stop case
\* of its select.
C19_Witness ==
    /\ ev.op = "select"
    /\ hk[ev.c] = "exited"
    /\ info[ev.c].Name = "/a"
    /\ containers["/a"] # ev.c

\* A step that is neither a failure of the reconciliation (of the creation of
\* the root, of the root's listing, of a create or of a destroy) nor a change
\* of the containers on the machine.
NoFault == ev'.op \notin {"passFail", "createFail", "env"}

====
